---- MODULE Spec2Model ----
(***************************************************************************)
(* Model of the client-side core of qr-svg-builder: the session guard      *)
(* (utils/audioCrypto.ts and utils/qrSession.ts), the daily play-quota     *)
(* counters (utils/audioLimit.ts, utils/videoLimit.ts) and the media       *)
(* caches (utils/videoCache.ts, utils/audioCache.ts).                      *)
(*                                                                         *)
(* Time is in milliseconds, as Date.now() reports it.  The clock advances  *)
(* by steps drawn from small sets chosen so that the limits of the code    *)
(* are hit exactly, missed by one and passed by one.                       *)
(***************************************************************************)
EXTENDS Integers, Sequences, FiniteSets, TLC

VARIABLES
    \* ---- session guard ----
    clock,        \* Date.now()
    sessMod,      \* which session module the page is built against
    sessionItem,  \* sessionStorage item of that module ("qrSession" / "qr-session-v1")
    sessRet,      \* value returned by the last session query, NoRet after any other step
    startedAt,    \* history: <<clock value of the last startSession() call>>, << >> if none
    justStarted,  \* history: nothing but queries has happened since startSession()
    ticks,        \* number of clock advances so far
    \* ---- play quota ----
    today,        \* local calendar date, new Date()
    localStorage, \* key -> stored value, for the keys that are present
    qpc,          \* per caller: position inside incrementAudioPlay()
    qst,          \* per caller: the state incrementAudioPlay() is about to write
    quotaRet,     \* outcome of the last quota operation, NoRet after any other step
    incDone,      \* history: completed incrementAudioPlay() calls since no state was persisted
    tampered,     \* history: the audio payload's used was edited and not re-signed since
    \* ---- media cache ----
    cacheMod,     \* which cache module is exercised: "video" or "audio"
    store,        \* IndexedDB object store: key -> entry, for the keys that are present
    network,      \* resource (absolute URL) -> bytes the server returns for it
    lpc,          \* per loader: position inside the load call
    loc,          \* per loader: arguments and locals of the load call
    lres,         \* how the load call that ended last ended, NoRet after any other step
    sweepNow,     \* <<clock reading>> of an expiry sweep in progress, << >> if none
    firstCall,    \* history: the last load that returned "network", NoItem once disturbed
    \* ---- protected page ----
    seenInvalid,  \* history: isSessionValid() returned false since the last startSession()
    cx,           \* one run of the byte obfuscator: input, stage, output
    pageMod,      \* which revision of the protected page is mounted
    page,         \* the page: route, media element, refs and React state
    pageRet,      \* what the last page handler did, NoRet after any other step
    \* ---- video player component ----
    player        \* one video component: its effect runs, refs and object URLs

sessVars == <<clock, sessMod, sessionItem, sessRet, startedAt, justStarted, ticks>>
quotaVars == <<today, localStorage, qpc, qst, quotaRet, incDone, tampered>>
cacheVars == <<cacheMod, store, network, lpc, loc, lres, sweepNow, firstCall>>
pageVars == <<seenInvalid, cx, player, pageMod, page, pageRet, player>>
vars == <<sessVars, quotaVars, cacheVars, pageVars>>

\* storage.getItem(key) === null
NoItem == [absent |-> TRUE]
NoRet == [op |-> "none"]
Never == << >>

Range(f) == {f[x] : x \in DOMAIN f}

Min(a, b) == IF a < b THEN a ELSE b
Max(a, b) == IF a > b THEN a ELSE b

\* A stored text that JSON.parse() rejects
Unparseable == [text |-> "{oops"]

\* JSON.parse(raw) does not throw
parses(item) == "text" \notin DOMAIN item

\* A JavaScript number that may be NaN is <<n>>, or NaN
NaN == << >>

(***************************************************************************)
(* Play quota                                                              *)
(***************************************************************************)

\* utils/audioLimit.ts
MAX_PLAYS == 5
SALT == "bfouru-audio-limit-v2"
\* utils/videoLimit.ts
MAX_VIDEO_PLAYS == 5

\* Bounds of the quota specifications
StartDay == 9
MaxDayAdvance == 1
MaxVideoUsed == 6
Callers == {1}
RaceCallers == {1, 2}
MaxSince == 2
StartDate == [y |-> 2026, m |-> 11, d |-> StartDay]

\* localStorage.getItem / setItem
hasItem(ls, k) == k \in DOMAIN ls
setItem(ls, k, v) == [x \in (DOMAIN ls) \cup {k} |-> IF x = k THEN v ELSE ls[x]]

\* String(s).padStart(2, "0")
padStart2(s) == IF Len(s) < 2 THEN "0" \o s ELSE s

\* audioLimit.ts dateKeyLocal(): YYYY-MM-DD
dateKeyLocal(d) ==
    ToString(d.y) \o "-" \o padStart2(ToString(d.m)) \o "-" \o padStart2(ToString(d.d))

storageKey == "bfouru_audio_limit_state"

\* SHA-256 as a collision-free function of its input text
sha256(text) == "sha256(" \o text \o ")"

\* a signature that does not cover the count
sign_withoutUsed(dateKey, used) == sha256(dateKey \o "|" \o SALT)

sign(dateKey, used) == sha256(dateKey \o "|" \o ToString(used) \o "|" \o SALT)

LimitState(dateKey, used) == [dateKey |-> dateKey, used |-> used, sig |-> sign(dateKey, used)]

\* Number(x) || 0 for an integer x
NumberOr0(x) == x

\* readState() without the new-day reset
readState_noRollover(ls, d) ==
    LET tdy == dateKeyLocal(d) IN
    IF ~hasItem(ls, storageKey) THEN LimitState(tdy, 0)
    ELSE LET parsed == ls[storageKey] IN
         IF ~parses(parsed) THEN LimitState(tdy, 0)
         ELSE IF "dateKey" \notin DOMAIN parsed THEN LimitState(tdy, 0)
         ELSE IF sign(parsed.dateKey, parsed.used) # parsed.sig THEN LimitState(tdy, 0)
         ELSE LimitState(tdy, Max(0, Min(MAX_PLAYS, NumberOr0(parsed.used))))

\* the catch branch is taken when JSON.parse throws; a parsed object
\* without a dateKey has parsed.dateKey !== today
readState(ls, d) ==
    LET tdy == dateKeyLocal(d) IN
    IF ~hasItem(ls, storageKey) THEN LimitState(tdy, 0)
    ELSE LET parsed == ls[storageKey] IN
         IF ~parses(parsed) THEN LimitState(tdy, 0)
         ELSE IF "dateKey" \notin DOMAIN parsed \/ parsed.dateKey # tdy THEN LimitState(tdy, 0)
         ELSE IF sign(parsed.dateKey, parsed.used) # parsed.sig THEN LimitState(tdy, 0)
         ELSE LimitState(tdy, Max(0, Min(MAX_PLAYS, NumberOr0(parsed.used))))

\* a write that signs the state before the new count is put into it
writeState_signingEarly(ls, dateKey, used) ==
    setItem(ls, storageKey, [dateKey |-> dateKey, used |-> used, sig |-> sign(dateKey, 0)])

writeState(ls, dateKey, used) == setItem(ls, storageKey, LimitState(dateKey, used))

getRemainingPlaysOf(ls, d) == Max(0, MAX_PLAYS - readState(ls, d).used)

canPlayAudioOf(ls, d) == getRemainingPlaysOf(ls, d) > 0

\* incrementAudioPlay(): the count it writes
\* the count without the clamp
nextUsed_unclamped(st) == st.used + 1

nextUsed(st) == Min(MAX_PLAYS, st.used + 1)

\* videoLimit.ts todayKey(): no zero padding
todayKey(d) ==
    "video-plays-" \o ToString(d.y) \o "-" \o ToString(d.m) \o "-" \o ToString(d.d)

\* the decimal integer texts
Numerals == (0 - MaxVideoUsed)..(MaxVideoUsed + 1)
isNumeral(text) == \E n \in Numerals : ToString(n) = text

\* Number(text) of a decimal integer text, by inverting String(n)
NumberOf(text) == CHOOSE n \in Numerals : ToString(n) = text

\* localStorage.getItem(key) || "0"
videoText(ls, d) ==
    IF hasItem(ls, todayKey(d)) /\ ls[todayKey(d)] # "" THEN ls[todayKey(d)] ELSE "0"

\* Number(...) is NaN for a text that is not a number
videoUsedIsNaN(ls, d) == ~isNumeral(videoText(ls, d))

\* Number(localStorage.getItem(key) || "0"), when it is a number
videoUsed(ls, d) == NumberOf(videoText(ls, d))

\* Math.max(0, MAX_VIDEO_PLAYS - used), NaN when used is NaN
getRemainingVideoPlaysOf(ls, d) ==
    IF videoUsedIsNaN(ls, d) THEN NaN ELSE <<Max(0, MAX_VIDEO_PLAYS - videoUsed(ls, d))>>

canPlayVideoOf(ls, d) ==
    LET r == getRemainingVideoPlaysOf(ls, d) IN r # NaN /\ r[1] > 0

\* ---- actions of the quota counters ----

NoneInFlight == \A q \in DOMAIN qpc : qpc[q] = "idle"

\* history: the calls that have read the state p is reading and have not written yet
readTogether(p) == {q \in DOMAIN qpc \ {p} : qpc[q] = "write" /\ qst[q].since = 0}

\* incrementAudioPlay(), up to the end of readState(): storage and date are read
incrementAudioPlay_called(p) ==
    /\ LET st == readState(localStorage, today) IN
       qst' = [q \in DOMAIN qst |->
                  IF q = p
                  THEN [dateKey |-> st.dateKey,
                        used |-> nextUsed(st),
                        day |-> today,
                        newDay |-> hasItem(localStorage, storageKey)
                                     /\ localStorage[storageKey].dateKey # dateKeyLocal(today),
                        prior |-> IF hasItem(localStorage, storageKey)
                                  THEN localStorage[storageKey].used ELSE 0,
                        overlap |-> readTogether(p),
                        since |-> 0]
                  ELSE IF q \in readTogether(p)
                  THEN [qst[q] EXCEPT !.overlap = @ \cup {p}]
                  ELSE qst[q]]
    /\ qpc' = [qpc EXCEPT ![p] = "write"]
    /\ quotaRet' = NoRet
    /\ UNCHANGED <<today, localStorage, incDone, tampered>>

incrementAudioPlay_read(p) ==
    /\ qpc[p] = "idle"
    /\ incrementAudioPlay_called(p)
    /\ UNCHANGED <<sessVars, cacheVars, pageVars>>

\* history: the payload's used as stored, 0 while nothing is stored
storedUsed(ls) == IF hasItem(ls, storageKey) THEN ls[storageKey].used ELSE 0

incrementAudioPlay_write_rereading(p) ==
    /\ qpc[p] = "write"
    /\ localStorage' = writeState(localStorage, qst[p].dateKey,
                                  nextUsed(readState(localStorage, today)))
    /\ qpc' = [qpc EXCEPT ![p] = "idle"]
    /\ qst' = [q \in DOMAIN qst |->
                  IF q = p THEN NoItem
                  ELSE IF qpc[q] = "write"
                  THEN [qst[q] EXCEPT !.since = Min(@ + 1, MaxSince)]
                  ELSE qst[q]]
    /\ quotaRet' = [op |-> "incrementAudioPlay", newDay |-> qst[p].newDay,
                    prior |-> qst[p].prior, day |-> qst[p].day,
                    overlap |-> qst[p].overlap, since |-> qst[p].since,
                    before |-> storedUsed(localStorage)]
    /\ incDone' = Min(incDone + 1, MAX_PLAYS + 2)
    /\ tampered' = FALSE
    /\ UNCHANGED <<today, sessVars, cacheVars, pageVars>>

\* incrementAudioPlay(), writeState(): the signed payload is stored
incrementAudioPlay_write(p) ==
    /\ qpc[p] = "write"
    /\ localStorage' = writeState(localStorage, qst[p].dateKey, qst[p].used)
    /\ qpc' = [qpc EXCEPT ![p] = "idle"]
    /\ qst' = [q \in DOMAIN qst |->
                  IF q = p THEN NoItem
                  ELSE IF qpc[q] = "write"
                  THEN [qst[q] EXCEPT !.since = Min(@ + 1, MaxSince)]
                  ELSE qst[q]]
    /\ quotaRet' = [op |-> "incrementAudioPlay", newDay |-> qst[p].newDay,
                    prior |-> qst[p].prior, day |-> qst[p].day,
                    overlap |-> qst[p].overlap, since |-> qst[p].since,
                    before |-> storedUsed(localStorage)]
    /\ incDone' = Min(incDone + 1, MAX_PLAYS + 2)
    /\ tampered' = FALSE
    /\ UNCHANGED <<today, sessVars, cacheVars, pageVars>>

getRemainingPlays ==
    /\ quotaRet' = [op |-> "getRemainingPlays", val |-> getRemainingPlaysOf(localStorage, today)]
    /\ UNCHANGED <<today, localStorage, qpc, qst, incDone, tampered, sessVars, cacheVars, pageVars>>

canPlayAudio ==
    /\ quotaRet' = [op |-> "canPlayAudio", val |-> canPlayAudioOf(localStorage, today)]
    /\ UNCHANGED <<today, localStorage, qpc, qst, incDone, tampered, sessVars, cacheVars, pageVars>>

getRemainingVideoPlays ==
    /\ quotaRet' = [op |-> "getRemainingVideoPlays",
                    val |-> getRemainingVideoPlaysOf(localStorage, today)]
    /\ UNCHANGED <<today, localStorage, qpc, qst, incDone, tampered, sessVars, cacheVars, pageVars>>

canPlayVideo ==
    /\ quotaRet' = [op |-> "canPlayVideo", val |-> canPlayVideoOf(localStorage, today)]
    /\ UNCHANGED <<today, localStorage, qpc, qst, incDone, tampered, sessVars, cacheVars, pageVars>>

incrementVideoPlay ==
    /\ IF videoUsedIsNaN(localStorage, today) THEN TRUE
       ELSE videoUsed(localStorage, today) < MaxVideoUsed
    /\ localStorage' = setItem(localStorage, todayKey(today),
                               IF videoUsedIsNaN(localStorage, today) THEN "NaN"
                               ELSE ToString(videoUsed(localStorage, today) + 1))
    /\ quotaRet' = NoRet
    /\ UNCHANGED <<today, qpc, qst, incDone, tampered, sessVars, cacheVars, pageVars>>

\* midnight passes
NextDay ==
    /\ today.d < StartDay + MaxDayAdvance
    /\ today' = [today EXCEPT !.d = today.d + 1]
    /\ quotaRet' = NoRet
    /\ UNCHANGED <<localStorage, qpc, qst, incDone, tampered, sessVars, cacheVars, pageVars>>

\* the user edits "used" in the stored payload and leaves "sig" as it was
TamperUsed ==
    /\ hasItem(localStorage, storageKey)
    /\ ~tampered
    /\ \E u \in (-1)..(MAX_PLAYS + 1) :
          /\ u # localStorage[storageKey].used
          /\ localStorage' = [localStorage EXCEPT ![storageKey].used = u]
    /\ tampered' = TRUE
    /\ quotaRet' = NoRet
    /\ UNCHANGED <<today, qpc, qst, incDone, sessVars, cacheVars, pageVars>>

\* the audio payloads a user may put under the storage key: a text that does
\* not parse, "{}", and correctly signed payloads with a count out of range
CorruptStates(d) ==
    {Unparseable,
     [object |-> TRUE],
     LimitState(dateKeyLocal(d), 0 - 2),
     LimitState(dateKeyLocal(d), MAX_PLAYS + 3)}

\* the texts a user may put under today's video key
CorruptCounts == {"abc", ToString(0 - 3), ToString(MAX_VIDEO_PLAYS + 1)}

\* the user rewrites the audio payload
CorruptAudioState ==
    /\ \E v \in CorruptStates(today) :
          /\ ~(hasItem(localStorage, storageKey) /\ localStorage[storageKey] = v)
          /\ localStorage' = setItem(localStorage, storageKey, v)
    /\ quotaRet' = NoRet
    /\ UNCHANGED <<today, qpc, qst, incDone, tampered, sessVars, cacheVars, pageVars>>

\* the user rewrites today's video count
CorruptVideoCount ==
    /\ \E v \in CorruptCounts :
          /\ videoText(localStorage, today) # v
          /\ localStorage' = setItem(localStorage, todayKey(today), v)
    /\ quotaRet' = NoRet
    /\ UNCHANGED <<today, qpc, qst, incDone, tampered, sessVars, cacheVars, pageVars>>

QuotaIdle ==
    /\ today = StartDate
    /\ localStorage = << >>
    /\ qpc = [p \in Callers |-> "idle"]
    /\ qst = [p \in Callers |-> NoItem]
    /\ quotaRet = NoRet
    /\ incDone = 0
    /\ tampered = FALSE


(***************************************************************************)
(* Symmetric obfuscator (utils/audioCrypto.ts)                             *)
(***************************************************************************)

\* new TextEncoder().encode("bfouru-qr-audio-secret-v1")
keyBytes ==
    <<98, 102, 111, 117, 114, 117, 45, 113, 114, 45, 97, 117, 100, 105, 111,
      45, 115, 101, 99, 114, 101, 116, 45, 118, 49>>

\* a ^ b on bytes
RECURSIVE bxor(_, _)
bxor(a, b) ==
    IF a = 0 THEN b
    ELSE IF b = 0 THEN a
    ELSE (((a % 2) + (b % 2)) % 2) + (2 * bxor(a \div 2, b \div 2))

xor(data, key) == [i \in 1..Len(data) |-> bxor(data[i], key[((i - 1) % Len(key)) + 1])]

encryptBytes(buf) == xor(buf, keyBytes)

decryptBytes_shiftedKey(buf) == xor(buf, Tail(keyBytes) \o <<Head(keyBytes)>>)

decryptBytes(buf) == xor(buf, keyBytes)

\* Bounds of the obfuscator specification: buffers of every length up to
\* MaxBufLen (more than twice the key), filled with (a * i + c) mod 256
MaxBufLen == 51
Fills == {<<0, 0>>, <<0, 255>>, <<1, 0>>, <<7, 98>>}
Buffer(n, f) == [i \in 1..n |-> ((f[1] * i) + f[2]) % 256]
Buffers == {Buffer(n, f) : n \in 0..MaxBufLen, f \in Fills}

NoRun == [stage |-> "idle"]

\* await encryptBytes(buf)
encryptBytesRun ==
    /\ cx.stage = "input"
    /\ cx' = [stage |-> "encrypted", buf |-> cx.buf, enc |-> encryptBytes(cx.buf)]
    /\ UNCHANGED <<seenInvalid, pageMod, page, pageRet, player, sessVars, quotaVars, cacheVars>>

\* await decryptBytes(enc)
decryptBytesRun ==
    /\ cx.stage = "encrypted"
    /\ cx' = [stage |-> "decrypted", buf |-> cx.buf, enc |-> cx.enc,
               dec |-> decryptBytes(cx.enc)]
    /\ UNCHANGED <<seenInvalid, pageMod, page, pageRet, player, sessVars, quotaVars, cacheVars>>

ObfuscatorIdle == cx = NoRun


(***************************************************************************)
(* Video components: components/CustomVideoPlayerUltra.tsx,                *)
(* CustomVideoPlayer (PageRevealOverlay.tsx), CachedVideoPlayer            *)
(* (TransitionOverlay.tsx)                                                 *)
(***************************************************************************)

PlayerComponents == {"CustomVideoPlayerUltra", "CustomVideoPlayer", "CachedVideoPlayer"}

\* the values of the src prop
Srcs == {"a.mp4", "b.mp4"}

\* Bound: runs of the load effect followed per component
MaxEffectRuns == 3

NoPlayer == [component |-> "none"]

\* URL.createObjectURL() in the load started by effect run r
objectUrl(r) == "blob:" \o ToString(r)

\* one run of the load effect: its closure variables and its load
EffectRun(src) ==
    [src |-> src, cancelled |-> FALSE, load |-> "pending", late |-> FALSE, revoke |-> ""]

\* videoCache.ts revokeVideoUrl / URL.revokeObjectURL
revokeVideoUrl(pl, url) == [pl EXCEPT !.revoked = @ \cup {url}]

\* CustomVideoPlayerUltra cleanup(): detach the video, revoke the held URL
cleanup(pl) ==
    LET detached == [pl EXCEPT !.videoSrc = ""] IN
    IF pl.objectUrlRef # ""
    THEN [revokeVideoUrl(detached, pl.objectUrlRef) EXCEPT !.objectUrlRef = ""]
    ELSE detached

\* the cleanup function returned by the newest run of the load effect
effectCleanup(pl) ==
    LET r == Len(pl.runs)
        left == [pl EXCEPT !.runs[r].cancelled = TRUE]
    IN  CASE pl.component = "CustomVideoPlayerUltra" -> cleanup(left)
          [] pl.component = "CustomVideoPlayer" ->
                IF pl.objectUrlRef # ""
                THEN [revokeVideoUrl(left, pl.objectUrlRef) EXCEPT !.objectUrlRef = ""]
                ELSE left
          [] pl.component = "CachedVideoPlayer" ->
                IF pl.runs[r].revoke # ""
                THEN revokeVideoUrl(left, pl.runs[r].revoke)
                ELSE left

\* the load effect runs for src: loadVideoWithCache() is called
effectRun(pl, src) ==
    LET before == IF pl.component = "CustomVideoPlayerUltra" THEN cleanup(pl) ELSE pl IN
    [before EXCEPT !.src = src, !.runs = Append(@, EffectRun(src))]

\* the URL is put on the video element
assign(pl, url) ==
    [pl EXCEPT !.videoSrc = url, !.assigned = @ \cup {url}]

\* the URL is kept in objectUrlRef
hold(pl, url) ==
    [pl EXCEPT !.objectUrlRef = url, !.assigned = @ \cup {url}]

\* a continuation that does not look at cancelled
afterLoad_Ultra_unchecked(pl, r) == assign(hold(pl, objectUrl(r)), objectUrl(r))

\* CustomVideoPlayerUltra.tsx: what follows await loadVideoWithCache()
afterLoad_Ultra(pl, r) ==
    IF pl.runs[r].cancelled
    THEN revokeVideoUrl(pl, objectUrl(r))
    ELSE assign(hold(pl, objectUrl(r)), objectUrl(r))

\* PageRevealOverlay.tsx CustomVideoPlayer
afterLoad_CustomVideoPlayer(pl, r) ==
    IF pl.runs[r].cancelled
    THEN pl
    ELSE assign(hold(pl, objectUrl(r)), objectUrl(r))

\* TransitionOverlay.tsx CachedVideoPlayer: revoke = url; setVideoUrl(url),
\* which does nothing once the component has unmounted
afterLoad_CachedVideoPlayer(pl, r) ==
    LET kept == [pl EXCEPT !.runs[r].revoke = objectUrl(r)] IN
    IF pl.phase = "mounted" THEN assign(kept, objectUrl(r)) ELSE kept

afterLoad(pl, r) ==
    CASE pl.component = "CustomVideoPlayerUltra" -> afterLoad_Ultra(pl, r)
      [] pl.component = "CustomVideoPlayer" -> afterLoad_CustomVideoPlayer(pl, r)
      [] pl.component = "CachedVideoPlayer" -> afterLoad_CachedVideoPlayer(pl, r)

\* ---- actions of a video component ----

\* the component is rendered for the first time
playerMount ==
    /\ player.phase = "unmounted"
    /\ \E src \in Srcs : player' = effectRun([player EXCEPT !.phase = "mounted"], src)
    /\ UNCHANGED <<seenInvalid, cx, pageMod, page, pageRet, sessVars, quotaVars, cacheVars>>

\* the parent passes another src: the old run is cleaned up, the effect runs again
srcChange ==
    /\ player.phase = "mounted"
    /\ Len(player.runs) < MaxEffectRuns
    /\ \E src \in Srcs \ {player.src} : player' = effectRun(effectCleanup(player), src)
    /\ UNCHANGED <<seenInvalid, cx, pageMod, page, pageRet, sessVars, quotaVars, cacheVars>>

\* the component unmounts
playerUnmount ==
    /\ player.phase = "mounted"
    /\ player' = [effectCleanup(player) EXCEPT !.phase = "gone"]
    /\ UNCHANGED <<seenInvalid, cx, pageMod, page, pageRet, sessVars, quotaVars, cacheVars>>

\* loadVideoWithCache() of run r resolves with a new object URL
loadResolved(r) ==
    /\ player.runs[r].load = "pending"
    /\ player' = afterLoad([player EXCEPT !.runs[r].load = "resolved",
                                          !.runs[r].late = player.runs[r].cancelled], r)
    /\ UNCHANGED <<seenInvalid, cx, pageMod, page, pageRet, sessVars, quotaVars, cacheVars>>

\* loadVideoWithCache() of run r throws: no object URL was made
loadRejected(r) ==
    /\ player.runs[r].load = "pending"
    /\ player' = [player EXCEPT !.runs[r].load = "rejected",
                                !.runs[r].late = player.runs[r].cancelled]
    /\ UNCHANGED <<seenInvalid, cx, pageMod, page, pageRet, sessVars, quotaVars, cacheVars>>

PlayerIdle == player = NoPlayer

\* No protected page is mounted
PageIdle ==
    /\ pageMod = "none"
    /\ page = NoItem
    /\ pageRet = NoRet
    /\ PlayerIdle

(***************************************************************************)
(* Media cache (utils/videoCache.ts, utils/audioCache.ts)                  *)
(***************************************************************************)

\* utils/audioCache.ts
CACHE_TTL == 5 * 60 * 1000

\* Bounds of the cache specifications
MaxCacheTicks == 2
Loaders == {1}
RaceLoaders == {1, 2}
MaxRaceTicks == 1
CacheDeltas(m) == IF m = "video" THEN {1, 999} ELSE {1, CACHE_TTL - 1}

\* window.location.origin + import.meta.env.BASE_URL
Base == "https://qr.test/app/"

\* A url argument: origin "" for a relative reference
Url(origin, path) == [origin |-> origin, path |-> path]
Urls == {Url("", "a.mp4"), Url(Base, "a.mp4")}
href(u) == u.origin \o u.path

\* new URL(url, base).href
normalizeToAbsoluteUrl(u) == IF u.origin = "" THEN Base \o u.path ELSE href(u)

Resources == {normalizeToAbsoluteUrl(u) : u \in Urls}

\* what the server returns for each resource, before and after a redeploy
Deploy1 == [r \in Resources |-> <<72, 105>>]
Deploy2 == [r \in Resources |-> <<0, 255, 98>>]

\* the store key of a load call: videoCache normalises, audioCache uses the argument
cacheKey(m, u) == IF m = "video" THEN normalizeToAbsoluteUrl(u) ELSE href(u)

\* the options a load call may be given
LoadOpt(u, ttlMs, encrypt, mime) == [url |-> u, ttlMs |-> ttlMs, encrypt |-> encrypt, mime |-> mime]
LoadOpts(m) ==
    IF m = "video"
    THEN {LoadOpt(Url("", "a.mp4"), 1000, TRUE, ""),
          LoadOpt(Url(Base, "a.mp4"), 2000, FALSE, "video/webm")}
    ELSE {LoadOpt(u, CACHE_TTL, FALSE, "audio/mpeg") : u \in Urls}

\* opts.mime || "video/mp4"
mimeOf(opts) == IF opts.mime = "" THEN "video/mp4" ELSE opts.mime

\* store.get(key): undefined when absent
storeGet(st, k) == IF k \in DOMAIN st THEN st[k] ELSE NoItem
storePut_keepingCreatedAt(st, k, e) ==
    [x \in (DOMAIN st) \cup {k} |->
        IF x # k THEN st[x]
        ELSE IF k \in DOMAIN st THEN [e EXCEPT !.createdAt = st[k].createdAt] ELSE e]

\* objectStore.put(record): the record replaces whatever the key held
storePut(st, k, e) == [x \in (DOMAIN st) \cup {k} |-> IF x = k THEN e ELSE st[x]]

\* the entries under the keys other than k
storeWithout(st, k) == [x \in (DOMAIN st) \ {k} |-> st[x]]

CachedVideo(data, createdAt, ttlMs, encrypted, mime) ==
    [data |-> data, createdAt |-> createdAt, ttlMs |-> ttlMs,
     encrypted |-> encrypted, mime |-> mime]

CachedAudio(data, createdAt) == [data |-> data, createdAt |-> createdAt]

\* the lifetime an entry is judged by
ttlOf(m, e) == IF m = "video" THEN e.ttlMs ELSE CACHE_TTL

\* a freshness test that still accepts an entry whose age equals its lifetime
isFresh_video_inclusive(cached, now) == now - cached.createdAt <= cached.ttlMs

\* videoCache.ts line 70 / audioCache.ts line 55
isFresh_video(cached, now) == now - cached.createdAt < cached.ttlMs

isFresh_audio(cached, now) == now - cached.createdAt < CACHE_TTL

isFresh(m, cached, now) ==
    IF m = "video" THEN isFresh_video(cached, now) ELSE isFresh_audio(cached, now)

\* a cache hit that forgets to reverse the obfuscation
cachedBytes_video_raw(cached) == cached.data

\* the bytes a cache hit hands out
cachedBytes_video(cached) ==
    IF cached.encrypted THEN decryptBytes(cached.data) ELSE cached.data

cachedBytes(m, cached) == IF m = "video" THEN cachedBytes_video(cached) ELSE cached.data

\* the type of the Blob a cache hit hands out
blobType(m, cached) == IF m = "video" THEN cached.mime ELSE "audio/mpeg"

\* an entry that is flagged as obfuscated whatever was done to its data
newEntry_alwaysFlagged(m, l) ==
    IF m = "video"
    THEN CachedVideo(IF l.encrypt THEN encryptBytes(l.buf) ELSE l.buf,
                     l.createdAt, l.ttlMs, TRUE, mimeOf(l))
    ELSE CachedAudio(l.buf, l.createdAt)

\* the entry a miss writes
newEntry(m, l) ==
    IF m = "video"
    THEN CachedVideo(IF l.encrypt THEN encryptBytes(l.buf) ELSE l.buf,
                     l.createdAt, l.ttlMs, l.encrypt, mimeOf(l))
    ELSE CachedAudio(l.buf, l.createdAt)

\* clearExpired*Cache: what the cursor deletes
isSwept(m, e, now) == now - e.createdAt > ttlOf(m, e)

\* ---- how a load call ends ----
Ended(p, status, source, bytes, stage) ==
    [status |-> status, source |-> source, bytes |-> bytes, stage |-> stage,
     url |-> loc[p].url, key |-> cacheKey(cacheMod, loc[p].url), seen |-> loc[p].seen,
     nowUsed |-> loc[p].nowUsed, buf |-> loc[p].buf, after |-> loc[p].after,
     undisturbed |-> loc[p].after = firstCall, at |-> clock, ops |-> loc[p].ops,
     encrypt |-> loc[p].encrypt, type |-> mimeOf(loc[p])]

\* ---- actions of the cache ----

\* the call is made; openDB() is pending
loadCalled(p, o) ==
    /\ loc' = [loc EXCEPT ![p] =
                  [url |-> o.url, ttlMs |-> o.ttlMs, encrypt |-> o.encrypt,
                   mime |-> o.mime, invokedAt |-> clock, after |-> firstCall,
                   now |-> clock, nowUsed |-> clock, seen |-> NoItem,
                   buf |-> << >>, createdAt |-> clock, ops |-> << >>]]
    /\ lpc' = [lpc EXCEPT ![p] = "open"]
    /\ lres' = NoRet

loadBegin(p) ==
    /\ lpc[p] = "idle"
    /\ \E o \in LoadOpts(cacheMod) : loadCalled(p, o)
    /\ UNCHANGED <<cacheMod, store, network, sweepNow, firstCall, sessVars, quotaVars, pageVars>>

\* openDB() resolved; videoCache reads Date.now(); the lookup is issued
loadOpened(p) ==
    /\ lpc[p] = "open"
    /\ loc' = [loc EXCEPT ![p].now = clock, ![p].ops = Append(@, "get")]
    /\ lpc' = [lpc EXCEPT ![p] = "read"]
    /\ lres' = NoRet
    /\ UNCHANGED <<cacheMod, store, network, sweepNow, firstCall,
                   sessVars, quotaVars, pageVars>>

\* the lookup resolved with `cached`: serve it if fresh, else issue the fetch
loadLookedUp(p, cached) ==
    LET nowUsed == IF cacheMod = "video" THEN loc[p].now ELSE clock
        fresh == cached # NoItem /\ isFresh(cacheMod, cached, nowUsed)
        l == [loc[p] EXCEPT !.seen = cached, !.nowUsed = nowUsed,
                            !.ops = Append(@, "fetch")]
    IN  /\ loc' = [loc EXCEPT ![p] = IF fresh THEN NoItem ELSE l]
        /\ IF fresh
           THEN /\ lpc' = [lpc EXCEPT ![p] = "idle"]
                /\ lres' = [Ended(p, "ok", "cache", cachedBytes(cacheMod, cached), "read")
                                EXCEPT !.seen = cached, !.nowUsed = nowUsed,
                                       !.type = blobType(cacheMod, cached)]
           ELSE /\ lpc' = [lpc EXCEPT ![p] = "fetch"]
                /\ lres' = NoRet
        /\ UNCHANGED <<cacheMod, store, network, sweepNow, firstCall,
                       sessVars, quotaVars, pageVars>>

loadRead(p) ==
    /\ lpc[p] = "read"
    /\ loadLookedUp(p, storeGet(store, cacheKey(cacheMod, loc[p].url)))

\* the response arrived with res.ok; the entry is built and the put is issued
loadFetched(p) ==
    /\ lpc[p] = "fetch"
    /\ loc' = [loc EXCEPT ![p].buf = network[normalizeToAbsoluteUrl(loc[p].url)],
                          ![p].createdAt = IF cacheMod = "video" THEN loc[p].now ELSE clock,
                          ![p].ops = Append(@, "put")]
    /\ lpc' = [lpc EXCEPT ![p] = "write"]
    /\ lres' = NoRet
    /\ UNCHANGED <<cacheMod, store, network, sweepNow, firstCall,
                   sessVars, quotaVars, pageVars>>

\* a failed fetch that also evicts the entry of its key
loadFetchFailed_evicting(p) ==
    /\ lpc[p] = "fetch"
    /\ lres' = Ended(p, "threw", "none", << >>, "fetch")
    /\ lpc' = [lpc EXCEPT ![p] = "idle"]
    /\ loc' = [loc EXCEPT ![p] = NoItem]
    /\ store' = [k \in (DOMAIN store) \ {cacheKey(cacheMod, loc[p].url)} |-> store[k]]
    /\ UNCHANGED <<cacheMod, network, sweepNow, firstCall, sessVars, quotaVars, pageVars>>

\* the response arrived with !res.ok: the call throws
loadFetchFailed(p) ==
    /\ lpc[p] = "fetch"
    /\ lres' = Ended(p, "threw", "none", << >>, "fetch")
    /\ lpc' = [lpc EXCEPT ![p] = "idle"]
    /\ loc' = [loc EXCEPT ![p] = NoItem]
    /\ UNCHANGED <<cacheMod, store, network, sweepNow, firstCall,
                   sessVars, quotaVars, pageVars>>

\* the write transaction completed: the call returns the fetched bytes
loadWritten(p) ==
    /\ lpc[p] = "write"
    /\ store' = storePut(store, cacheKey(cacheMod, loc[p].url), newEntry(cacheMod, loc[p]))
    /\ lres' = Ended(p, "ok", "network", loc[p].buf, "write") @@
                [entry |-> newEntry(cacheMod, loc[p]),
                 replaced |-> storeGet(store, cacheKey(cacheMod, loc[p].url)),
                 others |-> storeWithout(store, cacheKey(cacheMod, loc[p].url))]
    /\ firstCall' = [url |-> loc[p].url, key |-> cacheKey(cacheMod, loc[p].url),
                     invokedAt |-> loc[p].invokedAt, ttlMs |-> loc[p].ttlMs,
                     bytes |-> loc[p].buf]
    /\ lpc' = [lpc EXCEPT ![p] = "idle"]
    /\ loc' = [loc EXCEPT ![p] = NoItem]
    /\ UNCHANGED <<cacheMod, network, sweepNow, sessVars, quotaVars, pageVars>>

\* ---- store failures ----

\* indexedDB.open() failed: openDB() rejects and the call throws
loadOpenFailed(p) ==
    /\ lpc[p] = "open"
    /\ lres' = Ended(p, "threw", "none", << >>, "open")
    /\ lpc' = [lpc EXCEPT ![p] = "idle"]
    /\ loc' = [loc EXCEPT ![p] = NoItem]
    /\ UNCHANGED <<cacheMod, store, network, sweepNow, firstCall,
                   sessVars, quotaVars, pageVars>>

\* the get request errored: req.onerror resolves undefined
loadReadError(p) ==
    /\ lpc[p] = "read"
    /\ loadLookedUp(p, NoItem)

\* the write transaction failed.  videoCache: txDone rejects on error and on
\* abort.  audioCache: rejects on error; has no onabort, so the promise never settles.
loadWriteFailed(p) ==
    /\ lpc[p] = "write"
    /\ \E how \in {"error", "abort"} :
          IF cacheMod = "audio" /\ how = "abort"
          THEN /\ lpc' = [lpc EXCEPT ![p] = "hung"]
               /\ lres' = NoRet
          ELSE /\ lpc' = [lpc EXCEPT ![p] = "idle"]
               /\ lres' = Ended(p, "threw", "none", << >>, "write")
    /\ loc' = [loc EXCEPT ![p] = NoItem]
    /\ UNCHANGED <<cacheMod, store, network, sweepNow, firstCall,
                   sessVars, quotaVars, pageVars>>

\* ---- maintenance ----

\* clearExpired*Cache(): Date.now() is read, the cursor transaction is queued
clearExpiredBegin ==
    /\ sweepNow = << >>
    /\ sweepNow' = <<clock>>
    /\ lres' = NoRet
    /\ UNCHANGED <<cacheMod, store, network, lpc, loc, firstCall,
                   sessVars, quotaVars, pageVars>>

\* the cursor walks the store in one transaction
clearExpiredRun ==
    /\ sweepNow # << >>
    /\ store' = [k \in {x \in DOMAIN store : ~isSwept(cacheMod, store[x], sweepNow[1])}
                    |-> store[k]]
    /\ sweepNow' = << >>
    /\ firstCall' = NoItem
    /\ lres' = NoRet
    /\ UNCHANGED <<cacheMod, network, lpc, loc, sessVars, quotaVars, pageVars>>

\* clearAll*Cache()
clearAll ==
    /\ store' = << >>
    /\ firstCall' = NoItem
    /\ lres' = NoRet
    /\ UNCHANGED <<cacheMod, network, lpc, loc, sweepNow, sessVars, quotaVars, pageVars>>

\* the server is redeployed and returns other bytes from now on
NetworkChange ==
    /\ network = Deploy1
    /\ network' = Deploy2
    /\ firstCall' = NoItem
    /\ lres' = NoRet
    /\ UNCHANGED <<cacheMod, store, lpc, loc, sweepNow, sessVars, quotaVars, pageVars>>

TickCache ==
    /\ ticks < MaxCacheTicks
    /\ \E d \in CacheDeltas(cacheMod) : clock' = clock + d
    /\ ticks' = ticks + 1
    /\ lres' = NoRet
    /\ UNCHANGED <<sessMod, sessionItem, sessRet, startedAt, justStarted, quotaVars,
                   cacheMod, store, network, lpc, loc, sweepNow, firstCall, pageVars>>

CacheIdle ==
    /\ cacheMod = "video"
    /\ store = << >>
    /\ network = Deploy1
    /\ lpc = [p \in Loaders |-> "idle"]
    /\ loc = [p \in Loaders |-> NoItem]
    /\ lres = NoRet
    /\ sweepNow = << >>
    /\ firstCall = NoItem

(***************************************************************************)
(* Session guard                                                           *)
(***************************************************************************)

\* utils/audioCrypto.ts
IDLE_LIMIT == 1 * 60 * 1000
MAX_SESSION == 2 * 60 * 1000

\* utils/qrSession.ts
SESSION_MS == 10 * 60 * 1000
IDLE_MS == 5 * 60 * 1000

SessionModules == {"audioCrypto", "qrSession"}

MaxSessionOf(m) == IF m = "audioCrypto" THEN MAX_SESSION ELSE SESSION_MS
IdleLimitOf(m) == IF m = "audioCrypto" THEN IDLE_LIMIT ELSE IDLE_MS

\* Bounds of the session specification
MaxTicks == 5
StartClocks == {0, 5000}
SessionDeltas(m) ==
    IF m = "audioCrypto"
    THEN {1, 11000, 50000, IDLE_LIMIT - 1}
    ELSE {1, IDLE_MS - 1}

\* A stored session: the JSON text of an object with the two timestamps.
\* "start" is unlockedAt (audioCrypto.ts) / sessionStart (qrSession.ts),
\* "last" is lastActivityAt / lastActivity.
Session(s, l) == [start |-> s, last |-> l]

\* Other texts the storage key may hold: one that JSON.parse() rejects
\* (Unparseable), and the JSON text of an object whose timestamps are not
\* both numbers; a field is then described by its JavaScript type
Undefined == [type |-> "undefined"]
Text(t) == [type |-> "string", text |-> t]
Num(n) == [type |-> "number", n |-> n]
Obj(s, l) == [object |-> TRUE, start |-> s, last |-> l]

\* JSON.stringify of an object with these two fields
stringify(s, l) ==
    IF s.type = "number" /\ l.type = "number" THEN Session(s.n, l.n) ELSE Obj(s, l)

\* the field of the parsed object
field(item, f) == IF "object" \in DOMAIN item THEN item[f] ELSE Num(item[f])

\* now - v: NaN unless v is a number
since(now, v) == IF v.type = "number" THEN <<now - v.n>> ELSE NaN

\* x > limit: false when x is NaN
exceeds(x, limit) == x # NaN /\ x[1] > limit

\* Math.max(0, limit - x): NaN when x is NaN
remaining(limit, x) == IF x = NaN THEN NaN ELSE <<Max(0, limit - x[1])>>

\* JavaScript truthiness: 0, "" and undefined are falsy.
Truthy(v) ==
    CASE v.type = "number" -> v.n # 0
      [] v.type = "string" -> v.text # ""
      [] v.type = "object" -> TRUE
      [] OTHER -> FALSE

\* qrSession.ts read(): null when the item is absent, does not parse, or a
\* timestamp is falsy.
read(item) ==
    IF item = NoItem THEN NoItem
    ELSE IF ~parses(item) THEN NoItem
    ELSE IF ~Truthy(field(item, "start")) \/ ~Truthy(field(item, "last")) THEN NoItem
    ELSE item

\* a validity test that has no idle limit
isSessionValid_audioCrypto_noIdle(item, now) ==
    IF item = NoItem THEN FALSE
    ELSE IF ~parses(item) THEN FALSE
    ELSE IF exceeds(since(now, field(item, "start")), MAX_SESSION) THEN FALSE
    ELSE TRUE

isSessionValid_audioCrypto(item, now) ==
    IF item = NoItem THEN FALSE
    ELSE IF ~parses(item) THEN FALSE
    ELSE IF exceeds(since(now, field(item, "start")), MAX_SESSION) THEN FALSE
    ELSE IF exceeds(since(now, field(item, "last")), IDLE_LIMIT) THEN FALSE
    ELSE TRUE

\* x > 0 for sessionRemaining / idleRemaining = limit - x: false when NaN
positive(limit, x) == x # NaN /\ limit - x[1] > 0

\* a validity test that has no absolute limit
isSessionValid_qrSession_idleOnly(item, now) ==
    LET s == read(item) IN
    IF s = NoItem THEN FALSE
    ELSE positive(IDLE_MS, since(now, field(s, "last")))

isSessionValid_qrSession(item, now) ==
    LET s == read(item) IN
    IF s = NoItem THEN FALSE
    ELSE LET sessionElapsed == since(now, field(s, "start"))
             idleElapsed == since(now, field(s, "last"))
         IN positive(SESSION_MS, sessionElapsed) /\ positive(IDLE_MS, idleElapsed)

isSessionValidOf(m, item, now) ==
    IF m = "audioCrypto" THEN isSessionValid_audioCrypto(item, now)
    ELSE isSessionValid_qrSession(item, now)

\* an activity update that also renews the start time
updateActivity_audioCrypto_renewing(item, now) ==
    IF item = NoItem THEN item
    ELSE IF ~parses(item) THEN item
    ELSE stringify(Num(now), Num(now))

updateActivity_audioCrypto(item, now) ==
    IF item = NoItem THEN item
    ELSE IF ~parses(item) THEN item
    ELSE stringify(field(item, "start"), Num(now))

\* an activity update that starts a session when it finds none
updateActivity_qrSession_creating(item, now) ==
    LET s == read(item) IN
    IF s = NoItem THEN stringify(Num(now), Num(now))
    ELSE stringify(field(s, "start"), Num(now))

updateActivity_qrSession(item, now) ==
    LET s == read(item) IN
    IF s = NoItem THEN item
    ELSE stringify(field(s, "start"), Num(now))

updateActivityOf(m, item, now) ==
    IF m = "audioCrypto" THEN updateActivity_audioCrypto(item, now)
    ELSE updateActivity_qrSession(item, now)

\* the countdown pair, null as NoItem
Times(s, i) == [sessionRemaining |-> s, idleRemaining |-> i]

getRemainingTimes_audioCrypto(item, now) ==
    IF item = NoItem THEN NoItem
    ELSE IF ~parses(item) THEN NoItem
    ELSE Times(remaining(MAX_SESSION, since(now, field(item, "start"))),
               remaining(IDLE_LIMIT, since(now, field(item, "last"))))

getRemainingTimes_qrSession(item, now) ==
    LET s == read(item) IN
    IF s = NoItem THEN NoItem
    ELSE Times(remaining(SESSION_MS, since(now, field(s, "start"))),
               remaining(IDLE_MS, since(now, field(s, "last"))))

getRemainingTimesOf(m, item, now) ==
    IF m = "audioCrypto" THEN getRemainingTimes_audioCrypto(item, now)
    ELSE getRemainingTimes_qrSession(item, now)

\* the malformed texts the storage key is given: unparseable, "{}", an
\* object that lacks one timestamp, an object with a timestamp that is a word
CorruptValues(now) ==
    {Unparseable,
     Obj(Undefined, Undefined),
     Obj(Num(now), Undefined),
     Obj(Undefined, Num(now)),
     Obj(Num(now), Text("soon")),
     Obj(Text("soon"), Num(now))}

\* what a step remembers of the item it found
Found(item) ==
    [stored |-> item # NoItem,
     start |-> IF item # NoItem /\ parses(item) THEN field(item, "start") ELSE Undefined]

\* ---- actions of the session guard ----

startSession ==
    /\ sessionItem' = Session(clock, clock)
    /\ startedAt' = <<clock>>
    /\ justStarted' = TRUE
    /\ sessRet' = NoRet
    /\ seenInvalid' = FALSE
    /\ UNCHANGED <<clock, sessMod, ticks, quotaVars, cacheVars, cx, player, pageMod, page, pageRet>>

updateActivity ==
    /\ sessionItem' = updateActivityOf(sessMod, sessionItem, clock)
    /\ justStarted' = FALSE
    /\ sessRet' = [op |-> "updateActivity", found |-> Found(sessionItem)]
    /\ UNCHANGED <<clock, sessMod, startedAt, ticks, quotaVars, cacheVars, pageVars>>

clearSession ==
    /\ sessionItem' = NoItem
    /\ justStarted' = FALSE
    /\ sessRet' = NoRet
    /\ UNCHANGED <<clock, sessMod, startedAt, ticks, quotaVars, cacheVars, pageVars>>

isSessionValid ==
    /\ sessRet' = [op |-> "isSessionValid",
                   val |-> isSessionValidOf(sessMod, sessionItem, clock)]
    /\ seenInvalid' = (seenInvalid \/ (startedAt # Never /\ ~sessRet'.val))
    /\ UNCHANGED <<clock, sessMod, sessionItem, startedAt, justStarted, ticks, quotaVars,
                   cacheVars, cx, player, pageMod, page, pageRet>>

getRemainingTimes ==
    /\ sessRet' = [op |-> "getRemainingTimes",
                   val |-> getRemainingTimesOf(sessMod, sessionItem, clock)]
    /\ UNCHANGED <<clock, sessMod, sessionItem, startedAt, justStarted, ticks, quotaVars, cacheVars, pageVars>>

\* something other than this module rewrites the storage key
CorruptSession ==
    /\ \E v \in CorruptValues(clock) :
          /\ v # sessionItem
          /\ sessionItem' = v
    /\ justStarted' = FALSE
    /\ sessRet' = NoRet
    /\ UNCHANGED <<clock, sessMod, startedAt, ticks, quotaVars, cacheVars, pageVars>>

TickSession ==
    /\ ticks < MaxTicks
    /\ \E d \in SessionDeltas(sessMod) : clock' = clock + d
    /\ ticks' = ticks + 1
    /\ justStarted' = FALSE
    /\ sessRet' = NoRet
    /\ UNCHANGED <<sessMod, sessionItem, startedAt, quotaVars, cacheVars, pageVars>>

SessionIdle ==
    /\ clock = 0
    /\ sessMod = "qrSession"
    /\ sessionItem = NoItem
    /\ sessRet = NoRet
    /\ startedAt = Never
    /\ justStarted = FALSE
    /\ ticks = 0
    /\ seenInvalid = FALSE

InitSession ==
    /\ QuotaIdle
    /\ CacheIdle
    /\ ObfuscatorIdle
    /\ PageIdle
    /\ clock \in StartClocks
    /\ sessMod \in SessionModules
    /\ sessionItem = NoItem
    /\ sessRet = NoRet
    /\ startedAt = Never
    /\ justStarted = FALSE
    /\ ticks = 0
    /\ seenInvalid = FALSE

NextSession ==
    \/ startSession
    \/ updateActivity
    \/ clearSession
    \/ isSessionValid
    \/ TickSession

SpecSession == InitSession /\ [][NextSession]_vars

\* the same, on a clock that is past the epoch
InitSessionAfterEpoch == InitSession /\ clock > 0

SpecSessionAfterEpoch == InitSessionAfterEpoch /\ [][NextSession]_vars

\* the session guard with both of its queries
NextSessionQueries ==
    \/ NextSession
    \/ getRemainingTimes

SpecSessionQueries == InitSession /\ [][NextSessionQueries]_vars

\* the session guard over a storage key that may hold anything, with the
\* countdown helper; on a clock past the epoch
MaxCorruptTicks == 3

NextSessionCorrupt ==
    \/ startSession
    \/ updateActivity
    \/ clearSession
    \/ isSessionValid
    \/ getRemainingTimes
    \/ CorruptSession
    \/ ticks < MaxCorruptTicks /\ TickSession

SpecSessionCorrupt == InitSessionAfterEpoch /\ [][NextSessionCorrupt]_vars

(***************************************************************************)
(* Protected page: pages/QrProtectedPage.tsx, the two revisions of it in   *)
(* part_001, components/CustomAudioPlayer.tsx, pages/QrPasswordPage.tsx    *)
(***************************************************************************)

\* "QrProtectedPage": pages/QrProtectedPage.tsx, hidden <audio> and own buttons
\* "part_001_native": part_001 lines 1-182, <audio controls onPlay={handlePlay}>
\* "part_001_cached": part_001 lines 184-456, CustomAudioPlayer and the audio cache
PageRevisions == {"QrProtectedPage", "part_001_native", "part_001_cached"}

\* Bounds of the page specification
MaxPageTicks == 2
MaxPlaybacks == 1
MaxMounts == 1
MaxLatchPlaybacks == 3
PageStartClock == 5000

LIMIT_REACHED == "Your limit reached. Try it tomorrow."

\* What an async function returns to a caller that does not await it
Promise == [type |-> "object", class |-> "Promise"]

\* canPlayAudio() and getRemainingPlays() as the pages call them
canPlayAudio_called == Promise
getRemainingPlays_called == Promise

\* a === b
strictEquals(a, b) == a = b

\* a <= 0: a value that is not a number converts to NaN and compares false
atMostZero(a) == a.type = "number" /\ a.n <= 0

\* QrProtectedPage.tsx: const audioDisabled = remainingPlays === 0
audioDisabled(pg) == strictEquals(pg.remainingPlays, Num(0))

\* CustomAudioPlayer.tsx: const disabled = remainingPlays <= 0
disabled(pg) == atMostZero(pg.remainingPlays)

\* part_001: window.location.origin + import.meta.env.BASE_URL + file
remoteAudioUrl == Url(Base, "a.mp4")
PreloadOpt == LoadOpt(remoteAudioUrl, CACHE_TTL, FALSE, "audio/mpeg")

\* play() calls followed per visit: more on the page that has the one-shot latch
playbacksAllowed == IF pageMod = "QrProtectedPage" THEN MaxLatchPlaybacks ELSE MaxPlaybacks

\* The password page is shown: no media element, refs and state are gone
Away(pg) ==
    [pg EXCEPT !.route = "password", !.paused = TRUE, !.playEvt = FALSE,
               !.userInitiated = FALSE, !.startedThisRun = FALSE,
               !.countedThisRun = FALSE, !.inRun = FALSE]

\* history: the user starts playback; a playback run begins unless one is on
runStarted(pg) ==
    [pg EXCEPT !.paused = FALSE, !.playEvt = TRUE, !.plays = @ + 1,
               !.runs = IF pg.inRun THEN @ ELSE @ + 1, !.inRun = TRUE]

\* history: the run that is on, if any, has ended
runEnded(pg) ==
    [pg EXCEPT !.paused = TRUE,
               !.endedRuns = IF pg.inRun THEN @ + 1 ELSE @, !.inRun = FALSE]

\* The protected page after its first render
Mounted(pg) ==
    [Away(pg) EXCEPT !.route = "content", !.remainingPlays = getRemainingPlays_called,
                     !.mounts = @ + 1]

\* what a handler did, and what it found: whether a play was left today
\* and whether the media cache was empty
Done(h) ==
    [handler |-> h, incremented |-> FALSE, played |-> FALSE, paused |-> FALSE,
     toast |-> "", redirected |-> FALSE,
     canPlay |-> canPlayAudioOf(localStorage, today),
     cacheEmpty |-> store = << >>]

\* clearSession(), as a page calls it
sessionCleared ==
    /\ sessionItem' = NoItem
    /\ justStarted' = FALSE
    /\ sessRet' = NoRet
    /\ UNCHANGED <<clock, sessMod, startedAt, ticks, seenInvalid>>

\* clearSession(); clearAllAudioCache().catch(...); navigate(`/qr/${id}`)
lockOut(h) ==
    /\ sessionCleared
    /\ page' = [Away(page) EXCEPT
                   !.mounts = IF h = "mount" THEN @ + 1 ELSE @,
                   !.lockedOut = TRUE,
                   !.clearAll = IF pageMod = "part_001_cached" THEN "requested" ELSE @]
    /\ pageRet' = [Done(h) EXCEPT !.redirected = TRUE]

\* pages/QrPasswordPage.tsx
CORRECT_PASSWORD == "1234"

\* what the user may have typed into the password field
Passwords == {CORRECT_PASSWORD, "0000", ""}

\* what handleSubmit() did: the functions it called, in order, and the error
\* it set
Submitted(password, calls, error) ==
    Done("handleSubmit") @@ [password |-> password, calls |-> calls, error |-> error]

\* a handleSubmit() that does not compare the password
handleSubmit_acceptingAny(password) ==
    /\ page.route = "password"
    /\ sessionItem' = Session(clock, clock)
    /\ startedAt' = <<clock>>
    /\ justStarted' = TRUE
    /\ sessRet' = NoRet
    /\ seenInvalid' = FALSE
    /\ page' = [page EXCEPT !.lockedOut = FALSE,
                            !.clearAll = IF @ = "done" THEN "none" ELSE @]
    /\ pageRet' = Submitted(password, <<"startSession", "navigate">>, "")
    /\ UNCHANGED <<clock, sessMod, ticks, quotaVars, cacheVars, cx, player, pageMod>>

\* QrPasswordPage handleSubmit() with the password field holding password
handleSubmit(password) ==
    /\ page.route = "password"
    /\ IF password = CORRECT_PASSWORD
       THEN /\ sessionItem' = Session(clock, clock)
            /\ startedAt' = <<clock>>
            /\ justStarted' = TRUE
            /\ sessRet' = NoRet
            /\ seenInvalid' = FALSE
            /\ page' = [page EXCEPT !.lockedOut = FALSE,
                                    !.clearAll = IF @ = "done" THEN "none" ELSE @]
            /\ pageRet' = Submitted(password, <<"startSession", "navigate">>, "")
       ELSE /\ pageRet' = Submitted(password, << >>, "Invalid password")
            /\ UNCHANGED <<sessionItem, startedAt, justStarted, sessRet, seenInvalid, page>>
    /\ UNCHANGED <<clock, sessMod, ticks, quotaVars, cacheVars, cx, player, pageMod>>

\* /qr/:id/content is rendered: the effects of the first render run
pageMount ==
    /\ page.route = "password"
    /\ page.mounts < MaxMounts
    /\ pageMod = "part_001_cached" => (lpc[1] = "idle" /\ sweepNow = << >>)
    /\ IF isSessionValidOf(sessMod, sessionItem, clock)
       THEN /\ page' = Mounted(page)
            /\ pageRet' = Done("mount")
            /\ UNCHANGED <<sessVars, seenInvalid>>
       ELSE lockOut("mount")
    /\ IF pageMod = "part_001_cached"
       THEN /\ sweepNow' = <<clock>>
            /\ loadCalled(1, PreloadOpt)
            /\ UNCHANGED <<cacheMod, store, network, firstCall>>
       ELSE UNCHANGED cacheVars
    /\ UNCHANGED <<quotaVars, cx, player, pageMod>>

\* the setInterval callback
pageTick ==
    /\ page.route = "content"
    /\ LET times == getRemainingTimesOf(sessMod, sessionItem, clock) IN
       IF times = NoItem \/ ~isSessionValidOf(sessMod, sessionItem, clock)
       THEN lockOut("tick")
       ELSE /\ page' = [page EXCEPT !.remainingPlays = getRemainingPlays_called]
            /\ pageRet' = Done("tick")
            /\ UNCHANGED <<sessVars, seenInvalid>>
    /\ UNCHANGED <<quotaVars, cacheVars, cx, player, pageMod>>

\* a mousemove, keydown, scroll or touch on the page
onActivity ==
    /\ page.route = "content"
    /\ sessionItem' = updateActivityOf(sessMod, sessionItem, clock)
    /\ justStarted' = FALSE
    /\ sessRet' = NoRet
    /\ pageRet' = Done("onActivity")
    /\ UNCHANGED <<clock, sessMod, startedAt, ticks, quotaVars, cacheVars,
                   seenInvalid, cx, player, pageMod, page>>

\* the user leaves the page: the effects' cleanups run
pageUnmount ==
    /\ page.route = "content"
    /\ page' = Away(page)
    /\ pageRet' = Done("unmount")
    /\ UNCHANGED <<sessVars, quotaVars, cacheVars, seenInvalid, cx, player, pageMod>>

\* a click on the page's Play / Pause button
togglePlay ==
    /\ page.route = "content"
    /\ pageMod # "part_001_native"
    /\ IF pageMod = "QrProtectedPage" /\ ~isSessionValidOf(sessMod, sessionItem, clock)
       THEN lockOut("togglePlay")
       ELSE /\ UNCHANGED <<sessVars, seenInvalid>>
            /\ IF (pageMod = "QrProtectedPage"
                     /\ (~Truthy(canPlayAudio_called) \/ audioDisabled(page)))
                  \/ (pageMod = "part_001_cached" /\ disabled(page))
               THEN /\ pageRet' = [Done("togglePlay") EXCEPT !.toast = LIMIT_REACHED]
                    /\ page' = page
               ELSE IF page.paused
               THEN /\ page.plays < playbacksAllowed
                    /\ page' = [runStarted(page) EXCEPT
                                   !.userInitiated = (@ \/ pageMod = "QrProtectedPage")]
                    /\ pageRet' = [Done("togglePlay") EXCEPT !.played = TRUE]
               ELSE /\ page' = [page EXCEPT !.paused = TRUE]
                    /\ pageRet' = [Done("togglePlay") EXCEPT !.paused = TRUE]
    /\ UNCHANGED <<quotaVars, cacheVars, cx, player, pageMod>>

\* playback starts without the page's button: native controls, a media key
nativePlay ==
    /\ page.route = "content"
    /\ page.paused
    /\ page.plays < playbacksAllowed
    /\ page' = [page EXCEPT !.paused = FALSE, !.playEvt = TRUE, !.plays = @ + 1]
    /\ pageRet' = NoRet
    /\ UNCHANGED <<sessVars, quotaVars, cacheVars, seenInvalid, cx, player, pageMod>>

\* the handler blocks the playback that has started
blocked(h, text) ==
    /\ page' = [page EXCEPT !.playEvt = FALSE, !.paused = TRUE]
    /\ pageRet' = [Done(h) EXCEPT !.paused = TRUE, !.toast = text]
    /\ UNCHANGED quotaVars

\* the media element's "play" event is dispatched
handlePlay ==
    /\ page.route = "content"
    /\ page.playEvt
    /\ CASE pageMod = "QrProtectedPage" ->
              IF ~Truthy(canPlayAudio_called)
              THEN blocked("handlePlayNativeEvent", LIMIT_REACHED)
              ELSE IF ~page.userInitiated
              THEN blocked("handlePlayNativeEvent", "")
              ELSE /\ page' = [page EXCEPT
                                  !.playEvt = FALSE,
                                  !.startedThisRun = TRUE,
                                  !.countedThisRun = (@ /\ page.startedThisRun)]
                   /\ pageRet' = Done("handlePlayNativeEvent")
                   /\ UNCHANGED quotaVars
         [] pageMod = "part_001_native" ->
              IF ~Truthy(canPlayAudio_called)
              THEN blocked("handlePlay", LIMIT_REACHED)
              ELSE /\ qpc[1] = "idle"
                   /\ incrementAudioPlay_called(1)
                   /\ page' = [page EXCEPT !.playEvt = FALSE,
                                           !.remainingPlays = getRemainingPlays_called]
                   /\ pageRet' = [Done("handlePlay") EXCEPT !.incremented = TRUE]
         [] pageMod = "part_001_cached" ->
              IF disabled(page)
              THEN blocked("onPlayEvt", LIMIT_REACHED)
              ELSE /\ page' = [page EXCEPT !.playEvt = FALSE]
                   /\ pageRet' = Done("onPlayEvt")
                   /\ UNCHANGED quotaVars
    /\ UNCHANGED <<sessVars, cacheVars, seenInvalid, cx, player, pageMod>>

\* the media element's "pause" event is dispatched
handlePause ==
    /\ page.route = "content"
    /\ page' = [page EXCEPT !.paused = TRUE]
    /\ pageRet' = Done(IF pageMod = "part_001_cached" THEN "onPauseEvt" ELSE "handlePause")
    /\ UNCHANGED <<sessVars, quotaVars, cacheVars, seenInvalid, cx, player, pageMod>>

\* the media element's "seeking" event is dispatched: the position is put back
handleSeeking ==
    /\ page.route = "content"
    /\ pageMod = "QrProtectedPage"
    /\ pageRet' = Done("handleSeeking")
    /\ UNCHANGED <<sessVars, quotaVars, cacheVars, seenInvalid, cx, player, pageMod, page>>

\* a click on the Restart button
restart ==
    /\ page.route = "content"
    /\ pageMod # "part_001_native"
    /\ IF pageMod = "QrProtectedPage"
       THEN /\ pageRet' = IF ~Truthy(canPlayAudio_called) \/ audioDisabled(page)
                          THEN [Done("restartAudio") EXCEPT !.toast = LIMIT_REACHED]
                          ELSE Done("restartAudio")
            /\ page' = page
       ELSE IF disabled(page)
       THEN /\ pageRet' = [Done("restart") EXCEPT !.toast = LIMIT_REACHED]
            /\ page' = page
       ELSE /\ page.plays < playbacksAllowed
            /\ page' = runStarted(page)
            /\ pageRet' = [Done("restart") EXCEPT !.paused = TRUE, !.played = TRUE]
    /\ UNCHANGED <<sessVars, quotaVars, cacheVars, seenInvalid, cx, player, pageMod>>

\* an ended handler without the one-shot latch
onEnded_unlatched ==
    /\ qpc[1] = "idle"
    /\ incrementAudioPlay_called(1)
    /\ page' = [runEnded(page) EXCEPT
                   !.countedThisRun = (@ \/ pageMod = "QrProtectedPage"),
                   !.startedThisRun = FALSE,
                   !.userInitiated = FALSE,
                   !.remainingPlays = getRemainingPlays_called,
                   !.counted = @ + 1]
    /\ pageRet' = [Done(IF pageMod = "QrProtectedPage"
                        THEN "handleEnded" ELSE "onEndedEvt")
                      EXCEPT !.incremented = TRUE, !.paused = TRUE]
    /\ UNCHANGED <<sessVars, cacheVars, seenInvalid, cx, player, pageMod>>

\* the handler of the "ended" event: handleEnded (QrProtectedPage.tsx),
\* onEndedEvt -> onFullEnded (CustomAudioPlayer.tsx, part_001)
onEnded ==
    /\ IF pageMod = "QrProtectedPage" /\ page.countedThisRun
       THEN /\ page' = runEnded(page)
            /\ pageRet' = Done("handleEnded")
            /\ UNCHANGED quotaVars
       ELSE /\ qpc[1] = "idle"
            /\ incrementAudioPlay_called(1)
            /\ page' = [runEnded(page) EXCEPT
                           !.countedThisRun = (@ \/ pageMod = "QrProtectedPage"),
                           !.startedThisRun = FALSE,
                           !.userInitiated = FALSE,
                           !.remainingPlays = getRemainingPlays_called,
                           !.counted = @ + 1]
            /\ pageRet' = [Done(IF pageMod = "QrProtectedPage"
                                THEN "handleEnded" ELSE "onEndedEvt")
                              EXCEPT !.incremented = TRUE, !.paused = TRUE]
    /\ UNCHANGED <<sessVars, cacheVars, seenInvalid, cx, player, pageMod>>

\* playback reached the end: the media element's "ended" event is dispatched
handleEnded ==
    /\ page.route = "content"
    /\ pageMod # "part_001_native"
    /\ ~page.paused
    /\ ~page.playEvt
    /\ onEnded

\* the "ended" event is dispatched once more, right after it was handled
handleEndedAgain ==
    /\ page.route = "content"
    /\ pageMod = "QrProtectedPage"
    /\ pageRet # NoRet
    /\ pageRet.handler = "handleEnded"
    /\ onEnded

\* clearAllAudioCache() after its await openDB(): the store is cleared
clearAllRequested ==
    /\ page.clearAll = "requested"
    /\ store' = << >>
    /\ firstCall' = NoItem
    /\ lres' = NoRet
    /\ page' = [page EXCEPT !.clearAll = "done"]
    /\ pageRet' = NoRet
    /\ UNCHANGED <<cacheMod, network, lpc, loc, sweepNow, sessVars, quotaVars,
                   seenInvalid, cx, player, pageMod>>

\* the stored state after MAX_PLAYS full plays today
NoPlaysLeft == writeState(<< >>, dateKeyLocal(StartDate), MAX_PLAYS)

InitPage ==
    /\ today = StartDate
    /\ localStorage \in {<< >>, NoPlaysLeft}
    /\ qpc = [p \in Callers |-> "idle"]
    /\ qst = [p \in Callers |-> NoItem]
    /\ quotaRet = NoRet
    /\ incDone = 0
    /\ tampered = FALSE
    /\ ObfuscatorIdle
    /\ clock = PageStartClock
    /\ sessMod = "qrSession"
    /\ sessionItem = NoItem
    /\ sessRet = NoRet
    /\ startedAt = Never
    /\ justStarted = FALSE
    /\ ticks = 0
    /\ seenInvalid = FALSE
    /\ cacheMod = "audio"
    /\ store = << >>
    /\ network = Deploy1
    /\ lpc = [p \in Loaders |-> "idle"]
    /\ loc = [p \in Loaders |-> NoItem]
    /\ lres = NoRet
    /\ sweepNow = << >>
    /\ firstCall = NoItem
    /\ pageMod \in PageRevisions
    /\ page = [route |-> "password", paused |-> TRUE, playEvt |-> FALSE,
               userInitiated |-> FALSE, startedThisRun |-> FALSE,
               countedThisRun |-> FALSE, remainingPlays |-> Undefined,
               clearAll |-> "none", lockedOut |-> FALSE, plays |-> 0,
               mounts |-> 0, runs |-> 0, endedRuns |-> 0, counted |-> 0,
               inRun |-> FALSE]
    /\ pageRet = NoRet
    /\ PlayerIdle

NextPage ==
    \/ \E password \in Passwords : handleSubmit(password)
    \/ pageMount
    \/ pageTick
    \/ onActivity
    \/ pageUnmount
    \/ togglePlay
    \/ nativePlay
    \/ handlePlay
    \/ handlePause
    \/ handleSeeking
    \/ restart
    \/ handleEnded
    \/ incrementAudioPlay_write(1)
    \/ loadOpened(1)
    \/ loadRead(1)
    \/ loadFetched(1)
    \/ loadFetchFailed(1)
    \/ loadWritten(1)
    \/ clearExpiredRun
    \/ clearAllRequested
    \/ ticks < MaxPageTicks /\ TickSession

SpecPage == InitPage /\ [][NextPage]_vars

\* The player of pages/QrProtectedPage.tsx under an unexpired session
InitPlayer ==
    /\ InitPage
    /\ pageMod = "QrProtectedPage"
    /\ localStorage = << >>

NextPlayer ==
    \/ \E password \in Passwords : handleSubmit(password)
    \/ pageMount
    \/ pageUnmount
    \/ togglePlay
    \/ nativePlay
    \/ handlePlay
    \/ handlePause
    \/ handleSeeking
    \/ restart
    \/ handleEnded
    \/ handleEndedAgain
    \/ incrementAudioPlay_write(1)

SpecPlayer == InitPlayer /\ [][NextPlayer]_vars

\* The password page and the session guard effect of the protected page, with
\* time running until the absolute lifetime of the session is over
MaxOverrun == 1

\* the instants at which a limit of the stored session, started at start, is
\* missed by one, reached, or passed
GuardInstants(start, item) ==
    LET last == IF item # NoItem THEN item.last ELSE start IN
    {last + IDLE_MS - 1, last + IDLE_MS,
     start + SESSION_MS - 1, start + SESSION_MS, start + SESSION_MS + MaxOverrun}

\* time passes, up to the end of the session's absolute lifetime
TimePasses ==
    /\ startedAt # Never
    /\ \E t \in GuardInstants(startedAt[1], sessionItem) :
          /\ t > clock
          /\ t <= startedAt[1] + SESSION_MS + MaxOverrun
          /\ clock' = t
    /\ justStarted' = FALSE
    /\ sessRet' = NoRet
    /\ pageRet' = NoRet
    /\ UNCHANGED <<sessMod, sessionItem, startedAt, ticks, quotaVars, cacheVars,
                   seenInvalid, cx, player, pageMod, page>>

InitUnlock ==
    /\ InitPage
    /\ pageMod # "part_001_cached"
    /\ localStorage = << >>

\* the correct password is submitted while no session is stored
NextUnlock ==
    \/ \E password \in Passwords :
          /\ password = CORRECT_PASSWORD => sessionItem = NoItem
          /\ handleSubmit(password)
    \/ pageMount
    \/ pageTick
    \/ onActivity
    \/ pageUnmount
    \/ TimePasses

SpecUnlock == InitUnlock /\ [][NextUnlock]_vars

\* setInterval keeps firing while the page is mounted, and time does not stop
SpecUnlockFair == SpecUnlock /\ WF_vars(pageTick) /\ WF_vars(TimePasses)

InitQuota == QuotaIdle /\ SessionIdle /\ CacheIdle /\ ObfuscatorIdle /\ PageIdle

\* one incrementAudioPlay() at a time, as the page's one-shot latch arranges
NextAudioQuota ==
    \/ \E p \in Callers : NoneInFlight /\ incrementAudioPlay_read(p)
    \/ \E p \in Callers : incrementAudioPlay_write(p)
    \/ getRemainingPlays
    \/ canPlayAudio
    \/ NextDay

NextQuota ==
    \/ NextAudioQuota
    \/ getRemainingVideoPlays
    \/ canPlayVideo
    \/ incrementVideoPlay

SpecQuota == InitQuota /\ [][NextQuota]_vars

NextQuotaTamper == NextAudioQuota \/ TamperUsed

SpecQuotaTamper == InitQuota /\ [][NextQuotaTamper]_vars

\* the quota queries over storage that may hold anything
NextQuotaCorrupt ==
    \/ getRemainingPlays
    \/ canPlayAudio
    \/ getRemainingVideoPlays
    \/ canPlayVideo
    \/ incrementVideoPlay
    \/ NextDay
    \/ CorruptAudioState
    \/ CorruptVideoCount

SpecQuotaCorrupt == InitQuota /\ [][NextQuotaCorrupt]_vars

InitCache ==
    /\ SessionIdle
    /\ QuotaIdle
    /\ ObfuscatorIdle
    /\ PageIdle
    /\ cacheMod \in {"video", "audio"}
    /\ store = << >>
    /\ network = Deploy1
    /\ lpc = [p \in Loaders |-> "idle"]
    /\ loc = [p \in Loaders |-> NoItem]
    /\ lres = NoRet
    /\ sweepNow = << >>
    /\ firstCall = NoItem

\* one load call at a time
NoLoadInFlight == \A q \in DOMAIN lpc : lpc[q] = "idle"

NextCache ==
    \/ \E p \in Loaders : NoLoadInFlight /\ loadBegin(p)
    \/ \E p \in Loaders : loadOpened(p)
    \/ \E p \in Loaders : loadRead(p)
    \/ \E p \in Loaders : loadFetched(p)
    \/ \E p \in Loaders : loadFetchFailed(p)
    \/ \E p \in Loaders : loadWritten(p)
    \/ clearExpiredBegin
    \/ clearExpiredRun
    \/ clearAll
    \/ NetworkChange
    \/ TickCache

SpecCache == InitCache /\ [][NextCache]_vars

NextCacheFaults ==
    \/ NextCache
    \/ \E p \in Loaders : loadOpenFailed(p)
    \/ \E p \in Loaders : loadReadError(p)
    \/ \E p \in Loaders : loadWriteFailed(p)

SpecCacheFaults == InitCache /\ [][NextCacheFaults]_vars

\* two load calls whose awaits interleave
InitCacheRace ==
    /\ SessionIdle
    /\ QuotaIdle
    /\ ObfuscatorIdle
    /\ PageIdle
    /\ cacheMod \in {"video", "audio"}
    /\ store = << >>
    /\ network = Deploy1
    /\ lpc = [p \in RaceLoaders |-> "idle"]
    /\ loc = [p \in RaceLoaders |-> NoItem]
    /\ lres = NoRet
    /\ sweepNow = << >>
    /\ firstCall = NoItem

\* the second call is made while the first one is in flight
NextCacheRace ==
    \/ loadBegin(1)
    \/ lpc[1] # "idle" /\ loadBegin(2)
    \/ \E p \in RaceLoaders : loadOpened(p)
    \/ \E p \in RaceLoaders : loadRead(p)
    \/ \E p \in RaceLoaders : loadFetched(p)
    \/ \E p \in RaceLoaders : loadWritten(p)
    \/ ticks < MaxRaceTicks /\ TickCache

SpecCacheRace == InitCacheRace /\ [][NextCacheRace]_vars

\* incrementAudioPlay() calls from two callers (two ended events, or two tabs
\* on the same origin) whose awaits interleave, within one calendar day
InitQuotaRace ==
    /\ SessionIdle
    /\ CacheIdle
    /\ ObfuscatorIdle
    /\ PageIdle
    /\ today = StartDate
    /\ localStorage = << >>
    /\ qpc = [p \in RaceCallers |-> "idle"]
    /\ qst = [p \in RaceCallers |-> NoItem]
    /\ quotaRet = NoRet
    /\ incDone = 0
    /\ tampered = FALSE

NextQuotaRace ==
    \/ \E p \in RaceCallers : incrementAudioPlay_read(p)
    \/ \E p \in RaceCallers : incrementAudioPlay_write(p)
    \/ getRemainingPlays
    \/ canPlayAudio

SpecQuotaRace == InitQuotaRace /\ [][NextQuotaRace]_vars

\* The obfuscator applied to one buffer: encrypt, then decrypt the result
InitObfuscator ==
    /\ SessionIdle
    /\ QuotaIdle
    /\ CacheIdle
    /\ PageIdle
    /\ \E b \in Buffers : cx = [stage |-> "input", buf |-> b]

NextObfuscator ==
    \/ encryptBytesRun
    \/ decryptBytesRun

SpecObfuscator == InitObfuscator /\ [][NextObfuscator]_vars

\* One video component from before its first render until after its unmount
InitVideoPlayer ==
    /\ SessionIdle
    /\ QuotaIdle
    /\ CacheIdle
    /\ ObfuscatorIdle
    /\ pageMod = "none"
    /\ page = NoItem
    /\ pageRet = NoRet
    /\ \E c \in PlayerComponents :
          player = [component |-> c, phase |-> "unmounted", src |-> "", runs |-> << >>,
                    objectUrlRef |-> "", videoSrc |-> "", assigned |-> {}, revoked |-> {}]

NextVideoPlayer ==
    \/ playerMount
    \/ srcChange
    \/ playerUnmount
    \/ \E r \in 1..Len(player.runs) : loadResolved(r)
    \/ \E r \in 1..Len(player.runs) : loadRejected(r)

SpecVideoPlayer == InitVideoPlayer /\ [][NextVideoPlayer]_vars

(***************************************************************************)
(* Properties                                                              *)
(***************************************************************************)

\* C1: isSessionValid() returns true if and only if a session is stored and
\* both now - startedAt < MAX_SESSION and now - lastActivityAt < IDLE_TIMEOUT
\* hold, both comparisons strict.
C1_ValidIffStrictlyWithinBothLimits ==
    sessRet.op = "isSessionValid" =>
        (sessRet.val <=>
            /\ sessionItem # NoItem
            /\ clock - sessionItem.start < MaxSessionOf(sessMod)
            /\ clock - sessionItem.last < IdleLimitOf(sessMod))

\* C2: from no persisted audio quota state, on the same day, once MAX_PLAYS
\* incrementAudioPlay() calls have completed getRemainingPlays() returns 0 and
\* canPlayAudio() returns false; a further call leaves the persisted used
\* count at MAX_PLAYS.
C2_QuotaExhaustedAfterMaxPlays ==
    today = StartDate =>
        /\ (incDone >= MAX_PLAYS /\ quotaRet.op = "getRemainingPlays" => quotaRet.val = 0)
        /\ (incDone >= MAX_PLAYS /\ quotaRet.op = "canPlayAudio" => quotaRet.val = FALSE)
        /\ (incDone > MAX_PLAYS =>
                /\ hasItem(localStorage, storageKey)
                /\ localStorage[storageKey] = LimitState(dateKeyLocal(today), MAX_PLAYS))

C2_Witness ==
    /\ today = StartDate
    /\ incDone = MAX_PLAYS + 1
    /\ quotaRet.op = "canPlayAudio"
    /\ quotaRet.val = FALSE

\* C3: a load that starts after a load of the same url returned "network" and
\* ends before that load's ttlMs has elapsed since it was invoked, with no
\* sweep, clear, network change or other write in between, returns "cache"
\* with the bytes the first load returned, whatever its encrypt option.
C3_SecondLoadWithinTtlHitsCache ==
    (/\ lres # NoRet
     /\ lres.after # NoItem
     /\ lres.undisturbed
     /\ lres.after.key = lres.key
     /\ lres.at - lres.after.invokedAt < lres.after.ttlMs)
    => /\ lres.status = "ok"
       /\ lres.source = "cache"
       /\ lres.bytes = lres.after.bytes

C3_Witness ==
    /\ cacheMod = "video"
    /\ lres # NoRet
    /\ lres.after # NoItem
    /\ lres.undisturbed
    /\ lres.after.key = lres.key
    /\ lres.at - lres.after.invokedAt = lres.after.ttlMs - 1
    /\ lres.source = "cache"
    /\ lres.seen.encrypted
    /\ lres.seen.data # lres.bytes

\* C4: a load serves the entry its lookup found if and only if the entry
\* exists and now - createdAt < the entry's ttlMs; when the entry is absent or
\* its age is equal to or greater than its ttlMs the call goes to the network
\* and never returns "cache".
C4_ServedFromCacheIffFresh ==
    /\ (lres # NoRet /\ lres.source = "cache" =>
            /\ lres.seen # NoItem
            /\ lres.nowUsed - lres.seen.createdAt < ttlOf(cacheMod, lres.seen))
    /\ (lres # NoRet /\ lres.stage \in {"fetch", "write"} =>
            /\ lres.source # "cache"
            /\ \/ lres.seen = NoItem
               \/ lres.nowUsed - lres.seen.createdAt >= ttlOf(cacheMod, lres.seen))
    /\ \A p \in DOMAIN lpc :
          lpc[p] \in {"fetch", "write"} =>
              \/ loc[p].seen = NoItem
              \/ loc[p].nowUsed - loc[p].seen.createdAt >= ttlOf(cacheMod, loc[p].seen)

C4_Witness ==
    /\ lres # NoRet
    /\ lres.status = "ok"
    /\ lres.source = "network"
    /\ lres.seen # NoItem
    /\ lres.nowUsed - lres.seen.createdAt = ttlOf(cacheMod, lres.seen)

\* C5: when the fetch succeeded and the store write failed, the load still
\* returns the fetched bytes tagged "network".
C5_WriteFailureStillReturnsBytes ==
    /\ \A p \in DOMAIN lpc : lpc[p] # "hung"
    /\ (lres # NoRet /\ lres.stage = "write" =>
            /\ lres.status = "ok"
            /\ lres.source = "network"
            /\ lres.bytes = lres.buf)

\* C6: while the stored payload holds a used value that was edited without
\* recomputing sig, a quota read takes today's used count to be 0 and
\* getRemainingPlays() returns MAX_PLAYS.
C6_TamperedCountReadsAsZero ==
    tampered =>
        /\ readState(localStorage, today).used = 0
        /\ (quotaRet.op = "getRemainingPlays" => quotaRet.val = MAX_PLAYS)

C6_Witness ==
    /\ tampered
    /\ localStorage[storageKey].dateKey = dateKeyLocal(today)
    /\ localStorage[storageKey].used = MAX_PLAYS
    /\ quotaRet.op = "getRemainingPlays"
    /\ quotaRet.val = MAX_PLAYS

\* C7: once the local date differs from the persisted dateKey,
\* getRemainingPlays() returns MAX_PLAYS whatever the persisted used count, and
\* an incrementAudioPlay() that reads the state on the new day persists
\* used = 1 under that day's dateKey.
C7_NewDayResetsQuota ==
    /\ (/\ hasItem(localStorage, storageKey)
        /\ localStorage[storageKey].dateKey # dateKeyLocal(today)
        /\ quotaRet.op = "getRemainingPlays"
        => quotaRet.val = MAX_PLAYS)
    /\ (quotaRet.op = "incrementAudioPlay" /\ quotaRet.newDay =>
            localStorage[storageKey] = LimitState(dateKeyLocal(quotaRet.day), 1))

C7_Witness ==
    /\ quotaRet.op = "incrementAudioPlay"
    /\ quotaRet.newDay
    /\ quotaRet.prior = MAX_PLAYS
    /\ quotaRet.day = today
    /\ today # StartDate

\* C8: for each asset class the persisted used count for today satisfies
\* 0 <= usedCount <= MAX_PLAYS after any sequence of completed-play recordings.
C8_UsedCountWithinLimit ==
    /\ (hasItem(localStorage, storageKey) =>
            localStorage[storageKey].used \in 0..MAX_PLAYS)
    /\ videoUsed(localStorage, today) \in 0..MAX_VIDEO_PLAYS

\* C9: immediately after startSession(), at any clock value including 0, the
\* stored session is the new one and isSessionValid() returns true.
C9_ValidRightAfterStart ==
    justStarted =>
        /\ sessionItem = Session(clock, clock)
        /\ (sessRet.op = "isSessionValid" => sessRet.val = TRUE)

\* C10: after startSession() at t0, isSessionValid() returns false at every
\* time later than t0 + MAX_SESSION whatever updateActivity() calls happened,
\* and the stored start time stays t0.
C10_AbsoluteLimitNotExtended ==
    startedAt # Never =>
        /\ (sessRet.op = "isSessionValid" /\ clock > startedAt[1] + MaxSessionOf(sessMod)
                => sessRet.val = FALSE)
        /\ (sessionItem # NoItem => sessionItem.start = startedAt[1])

C10_Witness ==
    /\ startedAt # Never
    /\ sessionItem # NoItem
    /\ clock > startedAt[1] + MaxSessionOf(sessMod)
    /\ sessionItem.last > sessionItem.start
    /\ clock - sessionItem.last < IdleLimitOf(sessMod)
    /\ sessRet.op = "isSessionValid"
    /\ sessRet.val = FALSE

C12_MalformedSessionIsInvalid ==
    (/\ sessRet.op = "isSessionValid"
     /\ sessionItem # NoItem
     /\ \/ ~parses(sessionItem)
        \/ field(sessionItem, "start").type # "number"
        \/ field(sessionItem, "last").type # "number")
    => sessRet.val = FALSE

\* C13: updateActivity() never creates a session: when it finds nothing
\* stored the storage stays empty, and isSessionValid() on empty storage
\* returns false; when it finds a session the session stays stored with the
\* start time it had.
C13_ActivityNeverCreatesSession ==
    /\ (sessRet.op = "updateActivity" /\ ~sessRet.found.stored => sessionItem = NoItem)
    /\ (sessRet.op = "updateActivity" /\ sessRet.found.stored =>
            /\ sessionItem # NoItem
            /\ field(sessionItem, "start") = sessRet.found.start)
    /\ (sessRet.op = "isSessionValid" /\ sessionItem = NoItem => sessRet.val = FALSE)

C13_Witness ==
    /\ startedAt # Never
    /\ sessRet.op = "updateActivity"
    /\ ~sessRet.found.stored
    /\ sessionItem = NoItem

\* C14: getRemainingTimes() returns null unless a session with two numeric
\* timestamps is stored, and then returns
\* sessionRemaining = max(0, MAX_SESSION - (now - startedAt)) and
\* idleRemaining = max(0, IDLE - (now - lastActivityAt)), both non-negative.
C14_RemainingTimesClampedOrNull ==
    sessRet.op = "getRemainingTimes" =>
        IF /\ sessionItem # NoItem
           /\ parses(sessionItem)
           /\ field(sessionItem, "start").type = "number"
           /\ field(sessionItem, "last").type = "number"
        THEN /\ sessRet.val =
                  Times(<<Max(0, MaxSessionOf(sessMod) - (clock - sessionItem.start))>>,
                        <<Max(0, IdleLimitOf(sessMod) - (clock - sessionItem.last))>>)
             /\ sessRet.val.sessionRemaining[1] >= 0
             /\ sessRet.val.idleRemaining[1] >= 0
        ELSE sessRet.val = NoItem

\* C15: a load whose network response is not successful fails with an error
\* and writes nothing: the entry under its key is absent or is the one its
\* lookup found, and a stale entry that nothing removed meanwhile is still
\* stored.
C15_FailedFetchWritesNothing ==
    lres # NoRet /\ lres.stage = "fetch" =>
        /\ lres.status = "threw"
        /\ lres.source = "none"
        /\ (lres.key \in DOMAIN store => store[lres.key] = lres.seen)
        /\ (lres.seen # NoItem /\ lres.after # NoItem /\ lres.undisturbed
                => lres.key \in DOMAIN store)

C15_Witness ==
    /\ lres # NoRet
    /\ lres.stage = "fetch"
    /\ lres.status = "threw"
    /\ lres.seen # NoItem
    /\ ~isFresh(cacheMod, lres.seen, lres.nowUsed)
    /\ lres.key \in DOMAIN store
    /\ store[lres.key] = lres.seen

\* C16: a store failure in the lookup phase of a load (the store cannot be
\* opened, the read request errors) is a cache miss: no load ends with an
\* error in its lookup phase.
C16_LookupFailureIsMiss ==
    lres # NoRet /\ lres.status = "threw" => lres.stage \notin {"open", "read"}

\* C17: a load given the other spelling (relative / absolute) of the url of
\* an earlier load that returned "network", within that load's ttl and with
\* nothing in between, uses the same store key and is served from the cache.
C17_RelativeAndAbsoluteShareKey ==
    (/\ lres # NoRet
     /\ lres.after # NoItem
     /\ lres.undisturbed
     /\ lres.url # lres.after.url
     /\ normalizeToAbsoluteUrl(lres.url) = normalizeToAbsoluteUrl(lres.after.url)
     /\ lres.at - lres.after.invokedAt < lres.after.ttlMs)
    => /\ lres.key = lres.after.key
       /\ lres.status = "ok"
       /\ lres.source = "cache"

\* C18: the step that completes an expiry sweep keeps exactly the entries
\* that are fresh at the sweep's clock reading (age < ttl) and deletes every
\* other one; clearAll leaves the store empty.
C18_SweepRemovesExactlyStale ==
    [][/\ (clearExpiredRun =>
              \A k \in DOMAIN store :
                 IF isFresh(cacheMod, store[k], sweepNow[1])
                 THEN k \in DOMAIN store' /\ store'[k] = store[k]
                 ELSE k \notin DOMAIN store')
       /\ (clearAll => store' = << >>)]_vars

\* C19: when a quota read (getRemainingPlays / canPlayAudio) has returned,
\* the persisted state, if any, carries today's dateKey and a signature that
\* verifies: a state of another day or with a bad signature was replaced by
\* the reset state before the read returned.
C19_ReadPersistsReset ==
    (/\ quotaRet.op \in {"getRemainingPlays", "canPlayAudio"}
     /\ hasItem(localStorage, storageKey))
    => /\ localStorage[storageKey].dateKey = dateKeyLocal(today)
       /\ localStorage[storageKey].sig =
              sign(localStorage[storageKey].dateKey, localStorage[storageKey].used)

\* C20: whatever the persisted quota value holds, the remaining-plays query
\* of each asset class returns an integer in 0..MAX_PLAYS.
C20_RemainingPlaysInRange ==
    /\ (quotaRet.op = "getRemainingPlays" => quotaRet.val \in 0..MAX_PLAYS)
    /\ (quotaRet.op = "getRemainingVideoPlays" =>
            /\ quotaRet.val # NaN
            /\ quotaRet.val[1] \in 0..MAX_VIDEO_PLAYS)

\* C24: decryptBytes(encryptBytes(b)) = b for every byte sequence b, the
\* empty one included; the obfuscated output has the length of b and its
\* byte i is b[i] XOR key[i mod key length].
C24_ObfuscatorRoundTrip ==
    /\ cx.stage \in {"encrypted", "decrypted"} =>
          /\ Len(cx.enc) = Len(cx.buf)
          /\ \A i \in 1..Len(cx.buf) :
                cx.enc[i] = bxor(cx.buf[i], keyBytes[((i - 1) % Len(keyBytes)) + 1])
    /\ cx.stage = "decrypted" => cx.dec = cx.buf

C24_Witness ==
    /\ cx.stage = "decrypted"
    /\ Len(cx.buf) > 2 * Len(keyBytes)
    /\ cx.enc # cx.buf
    /\ cx.dec = cx.buf

\* C25: once isSessionValid() has returned false for a started session it
\* returns false on every later call until startSession() is called again,
\* whatever updateActivity() calls arrive in between.
C25_InvalidStaysInvalid ==
    (seenInvalid /\ sessRet.op = "isSessionValid") => ~sessRet.val

\* the write that completes a pair of calls which both read before either wrote
pairCompleted ==
    /\ quotaRet.op = "incrementAudioPlay"
    /\ quotaRet.overlap # {}
    /\ quotaRet.since = 1

\* C26: two incrementAudioPlay() calls that both read the stored state before
\* either writes leave used increased by exactly one (capped at MAX_PLAYS):
\* the second write stores what the first one stored, and used <= MAX_PLAYS.
C26_RacingIncrementsLoseOneUpdate ==
    pairCompleted =>
        /\ storedUsed(localStorage) = Min(quotaRet.prior + 1, MAX_PLAYS)
        /\ quotaRet.before = storedUsed(localStorage)
        /\ storedUsed(localStorage) <= MAX_PLAYS

C26_Witness ==
    /\ pairCompleted
    /\ quotaRet.prior = 0
    /\ incDone = 2
    /\ storedUsed(localStorage) = 1

\* C27: within one calendar day the persisted used never decreases and
\* getRemainingPlays() never increases, across any sequence of quota reads
\* and incrementAudioPlay() calls, interleaved ones included.
C27_UsedNeverDecreases ==
    [][today' = today =>
          /\ storedUsed(localStorage') >= storedUsed(localStorage)
          /\ getRemainingPlaysOf(localStorage', today')
                <= getRemainingPlaysOf(localStorage, today)]_vars

\* C30: every cache entry written by a load call has createdAt equal to the
\* clock value at the moment of the store write, after the fetch completed.
C30_CreatedAtIsWriteTime ==
    [][\A p \in DOMAIN lpc :
          (lpc[p] = "fetch" /\ lpc'[p] = "write") => loc'[p].createdAt = clock]_vars

\* a load call has just committed its write
loadCommitted == lres # NoRet /\ lres.stage = "write" /\ lres.status = "ok"

\* C28: when two load calls for the same uncached url interleave, each may
\* fetch and write, and after a commit the store holds exactly one entry for
\* that key, equal as a whole to the record of the write that committed
\* last; the entries under other keys are unchanged.
C28_LastWriteWinsWhole ==
    loadCommitted =>
        /\ lres.key \in DOMAIN store
        /\ store[lres.key] = lres.entry
        /\ storeWithout(store, lres.key) = lres.others

C28_Witness ==
    /\ loadCommitted
    /\ lres.seen = NoItem
    /\ lres.replaced # NoItem
    /\ lres.replaced # lres.entry
    /\ store[lres.key] = lres.entry

\* C21: the quota counter is incremented only in response to a media "ended"
\* event: play, pause, seeking, restart, mount and unmount never call
\* incrementAudioPlay() or onFullEnded().
C21_IncrementOnlyOnEnded ==
    (pageRet # NoRet /\ pageRet.incremented) =>
        pageRet.handler \in {"handleEnded", "onEndedEvt"}

\* C22: when today's remaining audio plays is 0 the page never starts
\* playback: togglePlay does not call play(), and the handler of the native
\* play event pauses the element and shows the limit message.
C22_NoPlaybackAtLimit ==
    (pageRet # NoRet /\ ~pageRet.canPlay) =>
        /\ pageRet.handler = "togglePlay" => ~pageRet.played
        /\ pageRet.handler \in {"handlePlayNativeEvent", "handlePlay", "onPlayEvt"} =>
              (pageRet.paused /\ pageRet.toast = LIMIT_REACHED)

\* C23: when the page detects on mount or on a timer tick that the session
\* is invalid, the session is cleared and the media cache has been emptied
\* before the page redirects to the password page.
C23_ClearedBeforeRedirect ==
    (pageRet # NoRet /\ pageRet.redirected /\ pageRet.handler \in {"mount", "tick"}) =>
        (sessionItem = NoItem /\ pageRet.cacheEmpty)

\* C29: after the page detected session invalidity and clearAll emptied the
\* media cache, the store stays empty until a new session is started: a load
\* in flight at the lock-out does not write its entry afterwards.
C29_StoreStaysEmptyAfterLockOut ==
    (page # NoItem /\ page.lockedOut /\ page.clearAll = "done") => store = << >>

\* the countdown has run out: getRemainingTimes() returns null, or a pair with
\* a zero in it
countdownOver(m, item, now) ==
    LET t == getRemainingTimesOf(m, item, now) IN
    \/ t = NoItem
    \/ t.sessionRemaining = <<0>>
    \/ t.idleRemaining = <<0>>

\* C31: at every instant the countdown and the validity check agree:
\* getRemainingTimes() returns null or reports sessionRemaining = 0 or
\* idleRemaining = 0 exactly when isSessionValid() returns false.
C31_CountdownAgreesWithValidity ==
    countdownOver(sessMod, sessionItem, clock)
        <=> ~isSessionValidOf(sessMod, sessionItem, clock)

\* a session row is stored and the validity check rejects it
expiredRow(m, item, now) == item # NoItem /\ ~isSessionValidOf(m, item, now)

\* lastActivityAt / lastActivity of the stored row, Undefined when there is none
lastActivityOf(item) ==
    IF item # NoItem /\ parses(item) THEN field(item, "last") ELSE Undefined

\* C39: isSessionValid() and getRemainingTimes() never modify the stored
\* session: an expired session row stays in storage unchanged until
\* clearSession() or startSession() is called, and only startSession() and
\* updateActivity() ever change lastActivityAt.
C39_QueriesLeaveSessionAlone ==
    [][/\ sessRet'.op \in {"isSessionValid", "getRemainingTimes"}
            => sessionItem' = sessionItem
       /\ (expiredRow(sessMod, sessionItem, clock) /\ sessionItem' # sessionItem)
            => (sessionItem' = NoItem \/ justStarted')
       /\ lastActivityOf(sessionItem') # lastActivityOf(sessionItem)
            => (justStarted' \/ sessRet'.op = "updateActivity" \/ sessionItem' = NoItem)
      ]_vars

\* C37: after any sequence of incrementAudioPlay() calls, sequential or
\* interleaved, the persisted audio quota payload's sig equals the digest of
\* its own dateKey and used count, so a state written by the counter itself
\* is never treated as tampered by a later read on the same day.
C37_WrittenStateVerifies ==
    hasItem(localStorage, storageKey) =>
        LET payload == localStorage[storageKey] IN
        /\ payload.sig = sign(payload.dateKey, payload.used)
        /\ payload.dateKey = dateKeyLocal(today)
             => readState(localStorage, today).used = payload.used

\* an increment that overlapped another one has written a count above 0
C37_Witness ==
    /\ quotaRet.op = "incrementAudioPlay"
    /\ quotaRet.overlap # {}
    /\ hasItem(localStorage, storageKey)
    /\ localStorage[storageKey].used > 0
    /\ localStorage[storageKey].dateKey = dateKeyLocal(today)

lifetimeOver == startedAt # Never /\ clock - startedAt[1] >= SESSION_MS

C33_OneCountPerEndedRun ==
    /\ page.counted = page.endedRuns
    /\ page.endedRuns <= page.runs

\* two runs have ended and were counted, and the ended event has just fired
\* a second time for the second run
C33_Witness ==
    /\ page.runs = 2
    /\ page.endedRuns = 2
    /\ page.counted = 2
    /\ pageRet # NoRet
    /\ pageRet.handler = "handleEnded"
    /\ ~pageRet.incremented

\* the store and network requests a load call may have issued, in order
LoadOrder == <<"get", "fetch", "put">>

\* C38: a single load call performs exactly one store lookup, at most one
\* network request and at most one store write, in that order; a call served
\* from the cache performs no network request and no store write.
C38_OneLookupThenFetchThenWrite ==
    /\ \A p \in DOMAIN lpc :
          loc[p] # NoItem =>
              \E n \in 0..3 : loc[p].ops = SubSeq(LoadOrder, 1, n)
    /\ lres # NoRet =>
          /\ \E n \in 1..3 : lres.ops = SubSeq(LoadOrder, 1, n)
          /\ lres.source = "cache" => lres.ops = <<"get">>

\* the bodies the server has returned for the resource stored under key k
fetchable(k) == {Deploy1[k], Deploy2[k]}

lateRuns == {r \in 1..Len(player.runs) : player.runs[r].load = "resolved" /\ player.runs[r].late}

\* C34: in CustomVideoPlayerUltra, if src changes or the component unmounts
\* while a load is in flight, the late result of that load is never assigned
\* to the video element (and never replaces the current object URL
\* reference), and the object URL it produced is revoked.
C34_LateResultDroppedAndRevoked ==
    player.component = "CustomVideoPlayerUltra" =>
        \A r \in lateRuns :
            /\ objectUrl(r) \notin player.assigned
            /\ player.videoSrc # objectUrl(r)
            /\ player.objectUrlRef # objectUrl(r)
            /\ objectUrl(r) \in player.revoked

\* the load of the first src resolved after src had changed, and the load of
\* the second src has been put on the video element
C34_Witness ==
    /\ player.component = "CustomVideoPlayerUltra"
    /\ player.phase = "mounted"
    /\ 1 \in lateRuns
    /\ player.videoSrc = objectUrl(2)
    /\ player.objectUrlRef = objectUrl(2)

\* the object URLs loadVideoWithCache() has returned to the component
created == {objectUrl(r) : r \in {x \in 1..Len(player.runs) : player.runs[x].load = "resolved"}}

\* C35: for the CustomVideoPlayer and CachedVideoPlayer components, every
\* object URL returned by loadVideoWithCache is revoked once the component has
\* unmounted and its loads have settled, for every ordering of load
\* completion and unmount.
C35_AllUrlsRevokedAfterUnmount ==
    (/\ player.component \in {"CustomVideoPlayer", "CachedVideoPlayer"}
     /\ player.phase = "gone"
     /\ \A r \in 1..Len(player.runs) : player.runs[r].load # "pending")
        => created \subseteq player.revoked

====
